---- MODULE Spec2Model ----
(***************************************************************************)
(* arch-installer (src/main.rs): the install / uninstall manifest engine.  *)
(*                                                                         *)
(* Text (prefixes, archive paths, manifest lines) is a sequence of         *)
(* one-character strings, so that starts_with, split('-'), format! and     *)
(* Path::new are computed character by character as the code does.  A      *)
(* filesystem path is the sequence of its components (each a text); the    *)
(* filesystem is the set of directories `dirs` plus the regular files      *)
(* `files`; manifest files are kept apart in `manifests`.                  *)
(***************************************************************************)
EXTENDS Naturals, Sequences, FiniteSets, TLC

\* ------------------------------------------------------------------ bounds

\* number of operations in one behaviour: the commands (install, uninstall,
\* reinstall) run and the files removed by hand
MaxOps == 2

\* length of the package arguments enumerated for a command taken alone
MaxLen == 3

\* ------------------------------------------------------------------ text

SLASH == "/"
HYPHEN == "-"
DOT == "."

Range(s) == {s[i] : i \in 1..Len(s)}

\* str::starts_with
StartsWith(s, p) == Len(p) <= Len(s) /\ SubSeq(s, 1, Len(p)) = p

\* position of the first / last occurrence of character c in s, 0 if none
FirstIndex(s, c) ==
    IF c \in Range(s) THEN CHOOSE i \in 1..Len(s) : s[i] = c /\ \A j \in 1..(i-1) : s[j] /= c
    ELSE 0

LastIndex(s, c) ==
    IF c \in Range(s) THEN CHOOSE i \in 1..Len(s) : s[i] = c /\ \A j \in (i+1)..Len(s) : s[j] /= c
    ELSE 0

\* str::split(c): the pieces of s between occurrences of c (never empty as a list)
RECURSIVE Split(_, _)
Split(s, c) ==
    LET i == FirstIndex(s, c) IN
    IF i = 0 THEN <<s>>
    ELSE <<SubSeq(s, 1, i-1)>> \o Split(SubSeq(s, i+1, Len(s)), c)

\* ------------------------------------------------------------------ paths

\* Path::new(s) as the filesystem resolves it: the non-empty, non-"." components
\* of an absolute path, the root being <<>>
RECURSIVE DropEmpty(_)
DropEmpty(parts) ==
    IF Len(parts) = 0 THEN <<>>
    ELSE IF Head(parts) = <<>> \/ Head(parts) = <<DOT>> THEN DropEmpty(Tail(parts))
    ELSE <<Head(parts)>> \o DropEmpty(Tail(parts))

Components(s) == DropEmpty(Split(s, SLASH))

\* Path::parent: the path without its last component; the root has none
HasParent(path) == Len(path) > 0
Parent(path) == SubSeq(path, 1, Len(path) - 1)

\* the path and all its ancestors up to the root
Ancestors(path) == {SubSeq(path, 1, n) : n \in 0..Len(path)}

\* Path::join(base, rel).display() for a relative rel (lines 317, 350, 394)
JoinDisplay(base, rel) ==
    IF Len(base) > 0 /\ base[Len(base)] = SLASH THEN base \o rel
    ELSE base \o <<SLASH>> \o rel

\* Path::file_name as text: the last component, <<>> standing for None
FileName(s) ==
    LET c == Components(s) IN
    IF Len(c) = 0 \/ c[Len(c)] = <<DOT, DOT>> THEN <<>> ELSE c[Len(c)]

\* Path::extension: what follows the last dot of the file name, <<>> for None
Extension(s) ==
    LET f == FileName(s)
        i == LastIndex(f, DOT)
    IN  IF i <= 1 THEN <<>> ELSE SubSeq(f, i+1, Len(f))

\* ------------------------------------------------------------------ the world

\* prefixes given on the command line (--prefix)
USR_LOCAL == <<"/","u","s","r","/","l","o","c","a","l">>
OPT == <<"/","o","p","t">>
TESTROOT == <<"/","t">>

Prefixes == {USR_LOCAL, OPT, TESTROOT}

\* archive paths given on the command line
FOO1 == <<"f","o","o","-","1",".","p","k","g">>
BAR1 == <<"b","a","r","-","1",".","p","k","g">>

Archives == {FOO1, BAR1}

\* more archives that exist on disk: one whose files try the classification,
\* one with a binary in a subdirectory of usr/bin, and a copy of bar-1.pkg
\* under a file name that begins with a hyphen
CLS1 == <<"c","l","s","-","1",".","p","k","g">>
NEST1 == <<"n","e","s","t","-","1",".","p","k","g">>
DASH1 == <<".","/","-","1",".","p","k","g">>

ArchiveFiles == Archives \cup {CLS1, NEST1, DASH1}

\* what uninstall may be given: a bare name or an archive path
FOO == <<"f","o","o">>
PackageNames == {FOO, BAR1}

\* relative paths inside the extracted trees
REL_FOO == <<"f","o","o">>
REL_BAR_SH == <<"b","a","r",".","s","h">>
REL_FOO_DESKTOP == <<"f","o","o",".","d","e","s","k","t","o","p">>
REL_FOO_PNG == <<"h","i","/","4","8","/","f","o","o",".","p","n","g">>
REL_BAD_PNG == <<"b","a","d",".","p","n","g">>
REL_BAR == <<"b","a","r">>
REL_X == <<"x">>
REL_E_TXT == <<"e",".","t","x","t">>
REL_P_PNG == <<"p",".","p","n","g">>
REL_I_SVG == <<"i",".","s","v","g">>
REL_J_JPG == <<"j",".","j","p","g">>
REL_K_PNG == <<"k",".","p","n","g">>
REL_M_PNG == <<"m",".","p","n","g">>
REL_D_N == <<"d","/","n">>
REL_N_DESKTOP == <<"n",".","d","e","s","k","t","o","p">>

Categories == <<"bin", "desktop", "icon">>

Entry(c, r, m, md) == [cat |-> c, rel |-> r, mime |-> m, mode |-> md]

\* The tree extract_pkg_zst unpacks from each archive: whether .PKGINFO is
\* there, which of usr/bin, usr/share/applications, usr/share/icons exist, and
\* the regular files under them with what the sniffing oracle answers for
\* their bytes ("none": the oracle returns nothing).  bar-1.pkg and its copy
\* ./-1.pkg hold the same tree.
Tree(a) ==
    IF a = FOO1 THEN
        [pkginfo |-> TRUE, srcdirs |-> {"bin", "desktop", "icon"},
         entries |-> {Entry("bin", REL_FOO, "application/x-executable", "0644"),
                      Entry("desktop", REL_FOO_DESKTOP, "none", "0644"),
                      Entry("icon", REL_FOO_PNG, "image/png", "0644")}]
    ELSE IF a = CLS1 THEN
        [pkginfo |-> TRUE, srcdirs |-> {"bin", "icon"},
         entries |-> {Entry("bin", REL_X, "none", "0755"),
                      Entry("bin", REL_E_TXT, "application/x-executable", "0644"),
                      Entry("bin", REL_P_PNG, "image/png", "0755"),
                      Entry("icon", REL_I_SVG, "image/svg+xml", "0644"),
                      Entry("icon", REL_J_JPG, "image/png", "0644"),
                      Entry("icon", REL_K_PNG, "none", "0644"),
                      Entry("icon", REL_M_PNG, "image/jpeg", "0644")}]
    ELSE IF a = NEST1 THEN
        [pkginfo |-> TRUE, srcdirs |-> {"bin", "desktop"},
         entries |-> {Entry("bin", REL_D_N, "application/x-executable", "0755"),
                      Entry("desktop", REL_N_DESKTOP, "none", "0644")}]
    ELSE
        [pkginfo |-> TRUE, srcdirs |-> {"bin", "icon"},
         entries |-> {Entry("bin", REL_BAR, "application/x-sharedlib", "0644"),
                      Entry("bin", REL_BAR_SH, "text/x-shellscript", "0755"),
                      Entry("icon", REL_BAD_PNG, "text/plain", "0644")}]

\* more prefixes, for a command taken alone
USR == <<"/","u","s","r">>
USRX == <<"/","u","s","r","x">>
OPT_APP == <<"/","o","p","t","/","a","p","p">>

ArgPrefixes == Prefixes \cup {USR, USRX, OPT_APP}

\* more package arguments, for a command taken alone: every text of at most
\* MaxLen characters over NameChars
NameChars == {"a", HYPHEN, SLASH, DOT}

NamePaths == UNION {[1..n -> NameChars] : n \in 0..MaxLen}

ArgPackages == ArchiveFiles \cup PackageNames \cup NamePaths

\* answers typed at the [y/N] prompt
Answers == {<<"y">>, <<" ", "Y", "\n">>, <<"y", "e", "s", "\n">>, <<"\n">>}

\* files of the user that may be on disk before the tool first runs
UserFile == [data |-> <<"user">>, mode |-> "0644"]

UserPaths ==
    { Components(TESTROOT) \o <<<<"b","i","n">>, REL_FOO>>,
      Components(TESTROOT) \o <<<<"b","i","n">>, <<"k","e","e","p">>>> }

\* directories of the user that may be on disk (empty or not) before the tool
\* first runs
UserDirs == { Components(TESTROOT) \o <<<<"b","i","n">>>> }

\* always there: the root directory and a populated /usr
BasePaths == { <<<<"u","s","r">>, <<"l","i","b">>, <<"l","d">>>> }

\* ------------------------------------------------------------------ state

VARIABLES
    files,      \* regular files on disk: path -> [data, mode]
    dirs,       \* directories on disk: set of paths
    manifests,  \* manifest files in the log directory: package name -> lines
    pc,         \* where the running command is
    cmd,        \* the running (or last) command: mode, package, prefix, root
    cat,        \* index in Categories of the category being installed, or of
                \* the destination root being pruned
    todo,       \* install: entries of the category's walk not yet visited
    cur,        \* install: the entry recorded and about to be copied
    lines,      \* uninstall: log_content, the manifest as read at line 448
    idx,        \* uninstall: position in lines
    walk,       \* uninstall: the directory clean_empty_dirs is looking at
    result,     \* outcome of the running (or last) command
    nops,       \* commands started and files removed by hand so far
    copied,     \* history: destination paths the current install has copied
    skipped,    \* history: destination paths the current install found existing
    missing,    \* history: listed paths the current uninstall found absent
    allOk,      \* history: every command so far has ended in success
    rt          \* history: the install / uninstall pair in progress, with the
                \* filesystem as it was before the install

vars == <<files, dirs, manifests, pc, cmd, cat, todo, cur, lines, idx, walk,
          result, nops, copied, skipped, missing, allOk, rt>>

fsvars == <<files, dirs, manifests>>

NoEntry == Entry("none", <<>>, "none", "none")
NoRT == [stage |-> "none"]
NoCmd == [mode |-> "none", package |-> <<>>, prefix |-> <<>>, root |-> FALSE]

\* ------------------------------------------------------------------ helpers of main.rs

IsSpace(c) == c \in {" ", "\n", "\t", "\r"}

\* str::trim
RECURSIVE TrimStart(_)
TrimStart(s) == IF Len(s) > 0 /\ IsSpace(Head(s)) THEN TrimStart(Tail(s)) ELSE s

RECURSIVE TrimEnd(_)
TrimEnd(s) ==
    IF Len(s) > 0 /\ IsSpace(s[Len(s)]) THEN TrimEnd(SubSeq(s, 1, Len(s) - 1)) ELSE s

Trim(s) == TrimEnd(TrimStart(s))

\* str::to_lowercase, on the letters the answers use
LowerChar(c) ==
    IF c = "Y" THEN "y" ELSE IF c = "E" THEN "e" ELSE IF c = "S" THEN "s"
    ELSE IF c = "N" THEN "n" ELSE c

ToLowercase(s) == [i \in 1..Len(s) |-> LowerChar(s[i])]

\* confirm_installation / confirm_uninstallation: the value returned for an answer
Confirmed(answer) == ToLowercase(Trim(answer)) = <<"y">>

UNKNOWN == <<"u","n","k","n","o","w","n">>

get_package_name(pkg_path) ==
    LET f == FileName(pkg_path)
        file_name == IF f = <<>> THEN UNKNOWN ELSE f
    IN  Split(file_name, HYPHEN)[1]

\* get_user_home_dir: /home/$SUDO_USER, or the home directory of the user
HOME == <<"/","h","o","m","e","/","u">>

get_log_dir == JoinDisplay(HOME, <<".","l","o","c","a","l","/","s","h","a","r","e","/","a","r","c","h","-","i","n","s","t","a","l","l","e","r">>)

\* get_log_path: the manifest of a package is the file format!("{}.log", package)
\* of the log directory
LogFileName(package) == package \o <<".","l","o","g">>

LogDir == Components(get_log_dir)

\* let needs_root = prefix.starts_with("/usr") || prefix == "/opt"
needs_root(prefix) == StartsWith(prefix, <<"/","u","s","r">>) \/ prefix = OPT

dest_bin_dir(prefix) == prefix \o <<"/","b","i","n">>

dest_desktop_dir(prefix) ==
    IF prefix = USR_LOCAL
    THEN prefix \o <<"/","s","h","a","r","e","/","a","p","p","l","i","c","a","t","i","o","n","s">>
    ELSE JoinDisplay(HOME, <<".","l","o","c","a","l","/","s","h","a","r","e","/","a","p","p","l","i","c","a","t","i","o","n","s">>)

dest_icon_dir(prefix) ==
    IF prefix = USR_LOCAL
    THEN prefix \o <<"/","s","h","a","r","e","/","i","c","o","n","s">>
    ELSE JoinDisplay(HOME, <<".","l","o","c","a","l","/","s","h","a","r","e","/","i","c","o","n","s">>)

\* the destination root of category number c
DestDir(c, prefix) ==
    IF Categories[c] = "bin" THEN dest_bin_dir(prefix)
    ELSE IF Categories[c] = "desktop" THEN dest_desktop_dir(prefix)
    ELSE dest_icon_dir(prefix)

\* str::starts_with on the oracle's MIME strings
MimeTails == {"", "-pie"}
MimeStartsWith(m, p) == \E t \in MimeTails : m = p \o t

\* mutant of Accepts: every regular file passes the filter
AcceptsAll(e) == TRUE

\* the filter each category applies to a regular file of its source tree
\* (lines 314-315, 348, 385-391)
Accepts(e) ==
    IF e.cat = "bin" THEN
        /\ e.mime /= "none"
        /\ \/ MimeStartsWith(e.mime, "application/x-executable")
           \/ MimeStartsWith(e.mime, "application/x-sharedlib")
    ELSE IF e.cat = "desktop" THEN
        Extension(e.rel) = <<"d","e","s","k","t","o","p">>
    ELSE
        /\ Extension(e.rel) \in {<<"p","n","g">>, <<"s","v","g">>}
        /\ e.mime /= "none"
        /\ e.mime \in {"image/png", "image/svg+xml"}

\* dest_path.display(), the line written to the manifest for an entry
DestLine(e, prefix) ==
    LET c == CHOOSE i \in 1..Len(Categories) : Categories[i] = e.cat
    IN  JoinDisplay(DestDir(c, prefix), e.rel)

\* ------------------------------------------------------------------ filesystem

\* Path::exists
Exists(path) == path \in dirs \/ path \in DOMAIN files

\* fs::read_dir(path) yields nothing
IsEmptyDir(path) ==
    /\ \A d \in dirs : ~(HasParent(d) /\ Parent(d) = path)
    /\ \A f \in DOMAIN files : Parent(f) /= path
    /\ path = LogDir => DOMAIN manifests = {}

\* fs::create_dir_all succeeds unless a regular file is in the way
CanCreateDirAll(path) == \A a \in Ancestors(path) : a \notin DOMAIN files

\* a function without / with one more argument
Without(f, x) == [y \in DOMAIN f \ {x} |-> f[y]]
With(f, x, v) == [y \in DOMAIN f \cup {x} |-> IF y = x THEN v ELSE f[y]]

\* ------------------------------------------------------------------ initial state

\* The disk before the tool first runs: the base files, the user's files or
\* none of them, any of the user's directories, every directory on the way to
\* them; no manifest.
Init ==
    \E uf \in {{}, UserPaths}, ud \in SUBSET UserDirs :
        /\ files = [f \in BasePaths \cup uf |-> UserFile]
        /\ dirs = UNION {Ancestors(Parent(f)) : f \in BasePaths \cup uf}
                    \cup UNION {Ancestors(d) : d \in ud}
        /\ manifests = << >>
        /\ pc = "idle"
        /\ cmd = NoCmd
        /\ cat = 0
        /\ todo = {}
        /\ cur = NoEntry
        /\ lines = <<>>
        /\ idx = 0
        /\ walk = <<>>
        /\ result = "none"
        /\ nops = 0
        /\ copied = {}
        /\ skipped = {}
        /\ missing = {}
        /\ allOk = TRUE
        /\ rt = NoRT

\* ------------------------------------------------------------------ ending a command

\* the process ends: its memory (the walk, the log content read) is gone
ProcessEnds(r) ==
    /\ pc' = "exit"
    /\ result' = r
    /\ cat' = 0
    /\ todo' = {}
    /\ cur' = NoEntry
    /\ lines' = <<>>
    /\ idx' = 0
    /\ walk' = <<>>
    /\ allOk' = (allOk /\ r = "ok")

\* an error return (anyhow::bail! or `?`): the process exits, the disk is as it is
Fail(r) ==
    /\ ProcessEnds(r)
    /\ rt' = NoRT
    /\ UNCHANGED <<files, dirs, manifests, cmd, nops, copied, skipped, missing>>

\* back at the shell prompt
Exit ==
    /\ pc = "exit"
    /\ pc' = "idle"
    /\ cmd' = NoCmd
    /\ result' = "none"
    /\ copied' = {}
    /\ skipped' = {}
    /\ missing' = {}
    /\ rt' = IF rt.stage = "installed" THEN rt ELSE NoRT
    /\ UNCHANGED <<files, dirs, manifests, cat, todo, cur, lines, idx, walk, nops,
                   allOk>>

\* ------------------------------------------------------------------ install

\* main, Commands::Install: a new process starts
CmdInstall(package, prefix, root) ==
    /\ pc = "idle"
    /\ nops < MaxOps
    /\ cmd' = [mode |-> "install", package |-> package, prefix |-> prefix, root |-> root]
    /\ nops' = nops + 1
    /\ pc' = "extract"
    /\ result' = "running"
    /\ rt' = NoRT
    /\ UNCHANGED <<files, dirs, manifests, cat, todo, cur, lines, idx, walk,
                   copied, skipped, missing, allOk>>

\* extract_pkg_zst: unpacks into the scratch directory, which is not part of
\* the modelled disk; fails when the archive cannot be opened
Extract ==
    /\ pc = "extract"
    /\ IF cmd.package \in ArchiveFiles
       THEN /\ pc' = "install_files"
            /\ UNCHANGED <<files, dirs, manifests, cmd, cat, todo, cur, lines, idx,
                           walk, result, nops, copied, skipped, missing, allOk, rt>>
       ELSE Fail("IOError")

\* mutant of GateRejects: the negation of is_root() forgotten
GateRejectsRoot(prefix, root) == needs_root(prefix) /\ root

\* `if needs_root && !is_root()` (lines 275, 416)
GateRejects(prefix, root) == needs_root(prefix) /\ ~root

\* File::create(&log_path): the manifest exists and is empty
CreateLog(m, name) == With(m, LogFileName(name), <<>>)

\* parse_pkginfo: fs::read_to_string of .PKGINFO succeeds (lines 95-97); io is
\* whether the disk lets the file be read
PkginfoRead(package, io) == Tree(package).pkginfo /\ io = "ok"

\* mutant of InstallFilesBegin: the log directory and the manifest are created
\* before the question is asked
InstallFilesBeginLogFirst(answer, io) ==
    /\ pc = "install_files"
    /\ IF GateRejects(cmd.prefix, cmd.root) THEN Fail("PermissionPolicy")
       ELSE IF ~PkginfoRead(cmd.package, io) THEN Fail("MetadataUnreadable")
       ELSE IF ~CanCreateDirAll(LogDir) THEN Fail("IOError")
       ELSE /\ dirs' = dirs \cup Ancestors(LogDir)
            /\ manifests' = CreateLog(manifests, get_package_name(cmd.package))
            /\ copied' = {}
            /\ skipped' = {}
            /\ UNCHANGED <<files, cmd, nops, missing>>
            /\ IF ~Confirmed(answer)
               THEN ProcessEnds("UserCancelled") /\ rt' = NoRT
               ELSE /\ cat' = 1
                    /\ pc' = "category"
                    /\ rt' = IF cmd.mode = "install"
                             THEN [stage |-> "installing",
                                   name |-> get_package_name(cmd.package),
                                   prefix |-> cmd.prefix, files |-> files,
                                   dirs |-> dirs, copied |-> {}]
                             ELSE NoRT
                    /\ UNCHANGED <<todo, cur, lines, idx, walk, result, allOk>>

\* install_files, lines 274-306: privilege gate, .PKGINFO, confirmation, then
\* the log directory and the (truncated) manifest
InstallFilesBegin(answer, io) ==
    /\ pc = "install_files"
    /\ IF GateRejects(cmd.prefix, cmd.root) THEN Fail("PermissionPolicy")
       ELSE IF ~PkginfoRead(cmd.package, io) THEN Fail("MetadataUnreadable")
       ELSE IF ~Confirmed(answer) THEN Fail("UserCancelled")
       ELSE IF ~CanCreateDirAll(LogDir) THEN Fail("IOError")
       ELSE /\ dirs' = dirs \cup Ancestors(LogDir)
            /\ manifests' = CreateLog(manifests, get_package_name(cmd.package))
            /\ cat' = 1
            /\ pc' = "category"
            /\ copied' = {}
            /\ skipped' = {}
            /\ rt' = IF cmd.mode = "install"
                     THEN [stage |-> "installing",
                           name |-> get_package_name(cmd.package),
                           prefix |-> cmd.prefix, files |-> files, dirs |-> dirs,
                           copied |-> {}]
                     ELSE NoRT
            /\ UNCHANGED <<files, cmd, todo, cur, lines, idx, walk, result, nops,
                           missing, allOk>>

\* `if Path::new(&src_..._dir).exists()` of each category (lines 308-309,
\* 341-342, 378-379), and past the last category the Ok(()) of line 411
CategoryBegin ==
    /\ pc = "category"
    /\ IF cat > Len(Categories)
       THEN /\ ProcessEnds("ok")
            /\ rt' = IF rt.stage = "installing"
                     THEN [rt EXCEPT !.stage = "installed", !.copied = copied]
                     ELSE NoRT
            /\ UNCHANGED <<files, dirs, manifests, cmd, nops, copied, skipped, missing>>
       ELSE IF Categories[cat] \notin Tree(cmd.package).srcdirs
       THEN /\ cat' = cat + 1
            /\ UNCHANGED <<files, dirs, manifests, pc, cmd, todo, cur, lines, idx,
                           walk, result, nops, copied, skipped, missing, allOk, rt>>
       ELSE IF ~CanCreateDirAll(Components(DestDir(cat, cmd.prefix)))
       THEN Fail("IOError")
       ELSE /\ dirs' = dirs \cup Ancestors(Components(DestDir(cat, cmd.prefix)))
            /\ todo' = {e \in Tree(cmd.package).entries : e.cat = Categories[cat]}
            /\ pc' = "walk"
            /\ UNCHANGED <<files, manifests, cmd, cat, cur, lines, idx, walk, result,
                           nops, copied, skipped, missing, allOk, rt>>

\* mutant of Record: the line never reaches the manifest file
RecordNothing(m, name, line) == m

\* writeln!(log_file, "{}", dest_path.display()): one more line in the manifest
Record(m, name, line) ==
    [m EXCEPT ![LogFileName(name)] = Append(@, line)]

\* one entry of the walk (WalkDir yields them in directory order, which the
\* code does not fix): filtered out, or recorded in the manifest
Visit(e) ==
    /\ pc = "walk"
    /\ e \in todo
    /\ IF Accepts(e)
       THEN /\ manifests' = Record(manifests, get_package_name(cmd.package),
                                   DestLine(e, cmd.prefix))
            /\ cur' = e
            /\ pc' = "copy"
            /\ UNCHANGED <<files, dirs, cmd, cat, todo, lines, idx, walk, result,
                           nops, copied, skipped, missing, allOk, rt>>
       ELSE /\ todo' = todo \ {e}
            /\ UNCHANGED <<files, dirs, manifests, pc, cmd, cat, cur, lines, idx,
                           walk, result, nops, copied, skipped, missing, allOk, rt>>

\* the walk of a category is over
WalkEnd ==
    /\ pc = "walk"
    /\ todo = {}
    /\ cat' = cat + 1
    /\ pc' = "category"
    /\ UNCHANGED <<files, dirs, manifests, cmd, todo, cur, lines, idx, walk,
                   result, nops, copied, skipped, missing, allOk, rt>>

\* mutant of SkipsExisting: the existence check left out
NeverSkips(path) == FALSE

\* `if dest_path.exists()` (lines 319, 352, 396)
SkipsExisting(path) == Exists(path)

\* the file fs::copy (and, for a binary, fs::set_permissions 0o755) leaves
Written(e, package) ==
    [data |-> <<package, e.rel>>, mode |-> IF e.cat = "bin" THEN "0755" ELSE e.mode]

\* the recorded entry: skipped when the destination exists, else copied
\* (lines 319-329, 352-357, 396-402); io is whether the disk lets the copy
\* succeed
Copy(io) ==
    LET dest == Components(DestLine(cur, cmd.prefix))
        mk == IF cur.cat = "icon" THEN Ancestors(Parent(dest)) ELSE {}
    IN
    /\ pc = "copy"
    /\ IF SkipsExisting(dest)
       THEN /\ skipped' = skipped \cup {dest}
            /\ todo' = todo \ {cur}
            /\ cur' = NoEntry
            /\ pc' = "walk"
            /\ UNCHANGED <<files, dirs, manifests, cmd, cat, lines, idx, walk,
                           result, nops, copied, missing, allOk, rt>>
       ELSE IF cur.cat = "icon" /\ ~CanCreateDirAll(Parent(dest))
       THEN Fail("IOError")
       ELSE IF ~(Parent(dest) \in dirs \cup mk) \/ io = "err"
       THEN /\ dirs' = dirs \cup mk
            /\ ProcessEnds("IOError")
            /\ rt' = NoRT
            /\ UNCHANGED <<files, manifests, cmd, nops, copied, skipped, missing>>
       ELSE /\ dirs' = dirs \cup mk
            /\ files' = With(files, dest, Written(cur, cmd.package))
            /\ copied' = copied \cup {dest}
            /\ todo' = todo \ {cur}
            /\ cur' = NoEntry
            /\ pc' = "walk"
            /\ UNCHANGED <<manifests, cmd, cat, lines, idx, walk, result, nops,
                           skipped, missing, allOk, rt>>

\* ------------------------------------------------------------------ uninstall

\* main, Commands::Uninstall
CmdUninstall(package, prefix, root) ==
    /\ pc = "idle"
    /\ nops < MaxOps
    /\ cmd' = [mode |-> "uninstall", package |-> package, prefix |-> prefix, root |-> root]
    /\ nops' = nops + 1
    /\ pc' = "uninstall_files"
    /\ result' = "running"
    /\ rt' = IF /\ rt.stage = "installed"
                /\ rt.name = get_package_name(package)
                /\ rt.prefix = prefix
             THEN [rt EXCEPT !.stage = "uninstalling"]
             ELSE NoRT
    /\ UNCHANGED <<files, dirs, manifests, cat, todo, cur, lines, idx, walk,
                   copied, skipped, missing, allOk>>

\* mutant of ReinstallFirst: reinstall begins with the installation
ReinstallFirstInstalls == "extract"

\* where Commands::Reinstall begins: uninstall_files(&package, &prefix)? (line 506)
ReinstallFirst == "uninstall_files"

\* main, Commands::Reinstall: uninstall_files, then extraction and install_files
CmdReinstall(package, prefix, root) ==
    /\ pc = "idle"
    /\ nops < MaxOps
    /\ cmd' = [mode |-> "reinstall", package |-> package, prefix |-> prefix, root |-> root]
    /\ nops' = nops + 1
    /\ pc' = ReinstallFirst
    /\ result' = "running"
    /\ rt' = NoRT
    /\ UNCHANGED <<files, dirs, manifests, cat, todo, cur, lines, idx, walk,
                   copied, skipped, missing, allOk>>

\* mutant of LogExists: the check left out
LogAlwaysExists(name) == TRUE

\* `if !log_path.exists()` (line 424)
LogExists(name) == LogFileName(name) \in DOMAIN manifests

\* uninstall_files, lines 415-449: privilege gate, confirmation, the manifest
\* must exist and is read (fs::read_to_string fails on a missing file)
UninstallFilesBegin(answer) ==
    /\ pc = "uninstall_files"
    /\ IF GateRejects(cmd.prefix, cmd.root) THEN Fail("PermissionPolicy")
       ELSE IF ~Confirmed(answer) THEN Fail("UserCancelled")
       ELSE IF ~LogExists(get_package_name(cmd.package)) THEN Fail("ManifestNotFound")
       ELSE IF LogFileName(get_package_name(cmd.package)) \notin DOMAIN manifests
       THEN Fail("IOError")
       ELSE /\ lines' = manifests[LogFileName(get_package_name(cmd.package))]
            /\ idx' = 1
            /\ pc' = "un_loop"
            /\ UNCHANGED <<files, dirs, manifests, cmd, cat, todo, cur, walk, result,
                           nops, copied, skipped, missing, allOk, rt>>

\* mutant of DeletesListed: every listed path is removed unchecked
DeletesUnchecked(path) == TRUE

\* `if file_path.exists()` (line 452)
DeletesListed(path) == Exists(path)

\* mutant of ListedPath: the file of that name is looked for under the
\* binaries directory of the prefix
UnderPrefix(line, prefix) == Components(dest_bin_dir(prefix)) \o <<FileName(line)>>

\* `let file_path = Path::new(line)` (line 451): the path a line of the
\* manifest names, whatever the prefix
ListedPath(line, prefix) == Components(line)

\* mutant of OnRemoveError: the error is dropped and the loop goes on
ContinuesOnRemoveError(r) ==
    /\ idx' = idx + 1
    /\ UNCHANGED <<files, dirs, manifests, pc, cmd, cat, todo, cur, lines, walk,
                   result, nops, copied, skipped, missing, allOk, rt>>

\* the `?` on fs::remove_file(file_path).context(..) (lines 453-454): the
\* error is returned from uninstall_files at once
OnRemoveError(r) == Fail(r)

\* one line of the manifest (lines 450-465): the path is removed if it exists;
\* io is whether the disk lets the removal succeed (fs::remove_file also
\* fails on a directory and on a missing path)
UninstallEntry(io) ==
    LET path == ListedPath(lines[idx], cmd.prefix) IN
    /\ pc = "un_loop"
    /\ idx <= Len(lines)
    /\ IF DeletesListed(path)
       THEN IF path \notin DOMAIN files \/ io = "err"
            THEN OnRemoveError("IOError")
            ELSE /\ files' = Without(files, path)
                 /\ idx' = idx + 1
                 /\ UNCHANGED <<dirs, manifests, pc, cmd, cat, todo, cur, lines, walk,
                                result, nops, copied, skipped, missing, allOk, rt>>
       ELSE /\ idx' = idx + 1
            /\ missing' = missing \cup {path}
            /\ UNCHANGED <<files, dirs, manifests, pc, cmd, cat, todo, cur, lines,
                           walk, result, nops, copied, skipped, allOk, rt>>

\* fs::remove_file(&log_path) after the loop (lines 466-468), then the first
\* clean_empty_dirs call
RemoveLog ==
    /\ pc = "un_loop"
    /\ idx > Len(lines)
    /\ LogFileName(get_package_name(cmd.package)) \in DOMAIN manifests
    /\ manifests' = Without(manifests, LogFileName(get_package_name(cmd.package)))
    /\ cat' = 1
    /\ walk' = Components(DestDir(1, cmd.prefix))
    /\ pc' = "prune"
    /\ UNCHANGED <<files, dirs, cmd, todo, cur, lines, idx, result, nops, copied,
                   skipped, missing, allOk, rt>>

\* mutant of Prunes: the emptiness test left out
PrunesNonEmpty(path) == path \in dirs

\* clean_empty_dirs: does it remove the directory it looks at (lines 146-150)
Prunes(path) == path \in dirs /\ IsEmptyDir(path)

\* mutant of NextWalk: the recursive call is made on the same path
SameWalk(path) == path

\* `if let Some(parent) = path.parent() { clean_empty_dirs(parent)?; }`
\* (lines 153-155): the path the recursive call looks at
NextWalk(path) == Parent(path)

\* one call of clean_empty_dirs (lines 145-159): an empty directory is removed
\* and the call recurses to its parent; anything else returns, and then comes
\* the call on the next destination root or, past the last one, the end of
\* uninstall_files (followed by extraction and install_files for reinstall)
PruneStep ==
    /\ pc = "prune"
    /\ dirs' = IF Prunes(walk) THEN dirs \ {walk} ELSE dirs
    /\ IF Prunes(walk) /\ HasParent(walk)
       THEN /\ walk' = NextWalk(walk)
            /\ UNCHANGED <<pc, cat, todo, cur, lines, idx, result, allOk, rt>>
       ELSE IF cat < Len(Categories)
       THEN /\ cat' = cat + 1
            /\ walk' = Components(DestDir(cat + 1, cmd.prefix))
            /\ UNCHANGED <<pc, todo, cur, lines, idx, result, allOk, rt>>
       ELSE IF cmd.mode = "reinstall"
       THEN /\ pc' = "extract"
            /\ cat' = 0
            /\ walk' = <<>>
            /\ lines' = <<>>
            /\ idx' = 0
            /\ UNCHANGED <<todo, cur, result, allOk, rt>>
       ELSE /\ ProcessEnds("ok")
            /\ rt' = IF rt.stage = "uninstalling"
                     THEN [rt EXCEPT !.stage = "done"] ELSE NoRT
    /\ UNCHANGED <<files, manifests, cmd, nops, copied, skipped, missing>>

\* the process is killed while a command runs: nothing of it is left but
\* what it has done to the disk
Interrupt ==
    /\ pc \notin {"idle", "exit"}
    /\ pc' = "idle"
    /\ cmd' = NoCmd
    /\ result' = "none"
    /\ cat' = 0
    /\ todo' = {}
    /\ cur' = NoEntry
    /\ lines' = <<>>
    /\ idx' = 0
    /\ walk' = <<>>
    /\ copied' = {}
    /\ skipped' = {}
    /\ missing' = {}
    /\ allOk' = FALSE
    /\ rt' = NoRT
    /\ UNCHANGED <<files, dirs, manifests, nops>>

\* the user removes by hand a file that some manifest lists (drift between
\* manifest and disk), between two commands
UserRemoves(path) ==
    /\ pc = "idle"
    /\ nops < MaxOps
    /\ nops' = nops + 1
    /\ path \in DOMAIN files
    /\ \E k \in DOMAIN manifests : \E i \in 1..Len(manifests[k]) :
           Components(manifests[k][i]) = path
    /\ files' = Without(files, path)
    /\ rt' = NoRT
    /\ UNCHANGED <<dirs, manifests, pc, cmd, cat, todo, cur, lines, idx, walk, result,
                   copied, skipped, missing, allOk>>

\* ------------------------------------------------------------------ specification

IO == {"ok", "err"}

Next ==
    \/ \E package \in Archives, prefix \in Prefixes, root \in BOOLEAN :
           CmdInstall(package, prefix, root)
    \/ \E package \in PackageNames, prefix \in Prefixes, root \in BOOLEAN :
           CmdUninstall(package, prefix, root)
    \/ \E package \in Archives, prefix \in Prefixes, root \in BOOLEAN :
           CmdReinstall(package, prefix, root)
    \/ Extract
    \/ \E answer \in Answers, io \in IO : InstallFilesBegin(answer, io)
    \/ CategoryBegin
    \/ \E e \in todo : Visit(e)
    \/ WalkEnd
    \/ \E io \in IO : Copy(io)
    \/ \E answer \in Answers : UninstallFilesBegin(answer)
    \/ \E io \in IO : UninstallEntry(io)
    \/ RemoveLog
    \/ PruneStep
    \/ Interrupt
    \/ Exit
    \/ \E path \in DOMAIN files : UserRemoves(path)

Spec == Init /\ [][Next]_vars

\* One command taken alone, on a disk that does not fail: the process has
\* just started (main has parsed the command line) with arguments from the
\* wider sets, on a disk as the tool first finds it.
InitArgs ==
    \E uf \in {{}, UserPaths}, ud \in SUBSET UserDirs,
       mode \in {"install", "uninstall", "reinstall"},
       package \in ArgPackages, prefix \in ArgPrefixes, root \in BOOLEAN :
        /\ files = [f \in BasePaths \cup uf |-> UserFile]
        /\ dirs = UNION {Ancestors(Parent(f)) : f \in BasePaths \cup uf}
                    \cup UNION {Ancestors(d) : d \in ud}
        /\ manifests = << >>
        /\ pc = IF mode = "install" THEN "extract" ELSE "uninstall_files"
        /\ cmd = [mode |-> mode, package |-> package, prefix |-> prefix, root |-> root]
        /\ cat = 0
        /\ todo = {}
        /\ cur = NoEntry
        /\ lines = <<>>
        /\ idx = 0
        /\ walk = <<>>
        /\ result = "running"
        /\ nops = 1
        /\ copied = {}
        /\ skipped = {}
        /\ missing = {}
        /\ allOk = TRUE
        /\ rt = NoRT

NextArgs ==
    \/ Extract
    \/ \E answer \in Answers : InstallFilesBegin(answer, "ok")
    \/ CategoryBegin
    \/ \E e \in todo : Visit(e)
    \/ WalkEnd
    \/ Copy("ok")
    \/ \E answer \in Answers : UninstallFilesBegin(answer)
    \/ Exit

SpecArgs == InitArgs /\ [][NextArgs]_vars

\* files and directories that may be on disk when the pruning begins
PruneFiles ==
    { Components(dest_bin_dir(TESTROOT)) \o <<<<"k","e","e","p">>>>,
      Components(dest_icon_dir(TESTROOT)) \o <<<<"h","i">>, <<"k",".","p","n","g">>>> }

PruneDirs ==
    { Components(dest_bin_dir(TESTROOT)),
      Components(dest_bin_dir(OPT)),
      Components(dest_desktop_dir(USR_LOCAL)),
      Components(dest_desktop_dir(TESTROOT)),
      Components(dest_icon_dir(TESTROOT)),
      Components(dest_icon_dir(TESTROOT)) \o <<<<"h","i">>, <<"4","8">>>>,
      LogDir }

\* The pruning taken alone: uninstall_files has just removed the manifest
\* (one without lines) and makes its first clean_empty_dirs call, on any disk.
InitPrune ==
    \E uf \in SUBSET PruneFiles, ud \in SUBSET PruneDirs,
       prefix \in Prefixes, root \in BOOLEAN :
        /\ ~GateRejects(prefix, root)
        /\ files = [f \in BasePaths \cup uf |-> UserFile]
        /\ dirs = UNION {Ancestors(Parent(f)) : f \in BasePaths \cup uf}
                    \cup UNION {Ancestors(d) : d \in ud}
        /\ manifests = << >>
        /\ pc = "prune"
        /\ cmd = [mode |-> "uninstall", package |-> FOO, prefix |-> prefix, root |-> root]
        /\ cat = 1
        /\ todo = {}
        /\ cur = NoEntry
        /\ lines = <<>>
        /\ idx = 1
        /\ walk = Components(DestDir(1, prefix))
        /\ result = "running"
        /\ nops = 1
        /\ copied = {}
        /\ skipped = {}
        /\ missing = {}
        /\ allOk = TRUE
        /\ rt = NoRT

NextPrune ==
    \/ PruneStep
    \/ Exit

SpecPrune == InitPrune /\ [][NextPrune]_vars

\* ------------------------------------------------------------------ properties

\* the package name of the running command and the paths its manifest lists
PkgName == get_package_name(cmd.package)

ManifestPaths(name) ==
    IF LogFileName(name) \in DOMAIN manifests
    THEN {Components(manifests[LogFileName(name)][i]) :
             i \in 1..Len(manifests[LogFileName(name)])}
    ELSE {}

\* path is root or lies below it
IsUnder(root, path) == Len(root) <= Len(path) /\ SubSeq(path, 1, Len(root)) = root

UnderDestRoots(prefix, path) ==
    \E c \in 1..Len(Categories) : IsUnder(Components(DestDir(c, prefix)), path)

InstallPcs == {"install_files", "category", "walk", "copy"}

\* a step of a command whose prefix requires root, run unprivileged
GateStep ==
    /\ UNCHANGED fsvars
    /\ pc' \in {"extract", "install_files", "uninstall_files", "exit"}
    /\ (pc' = "exit" => result' = "PermissionPolicy")
    /\ (pc \in {"install_files", "uninstall_files"}
           => (pc' = "exit" /\ result' = "PermissionPolicy"))

\* C1: while a command whose prefix requires root runs unprivileged, no step
\* changes a file, a directory or a manifest, and install_files and
\* uninstall_files return the privilege error.
PrivilegeGateNoWrite ==
    [][(cmd'.mode /= "none" /\ needs_root(cmd'.prefix) /\ ~cmd'.root) => GateStep]_vars

\* C1 witness: an unprivileged uninstall from a root-requiring prefix has been
\* refused while the package's manifest lists files.
PrivilegeGateWitness ==
    /\ pc = "exit"
    /\ result = "PermissionPolicy"
    /\ cmd.mode = "uninstall"
    /\ ManifestPaths(PkgName) /= {}

\* C2: in every state, every destination this install has copied is listed in
\* the package's manifest.
WriteLogBeforeData == \A path \in copied : path \in ManifestPaths(PkgName)

\* C2 witness: an install has aborted on an I/O error after copying a file.
WriteLogBeforeDataWitness ==
    /\ pc = "exit"
    /\ result = "IOError"
    /\ cmd.mode = "install"
    /\ copied /= {}

\* C3: after an install that returns success, every path the manifest lists
\* is one this install copied.
ManifestAccuracy ==
    (pc = "exit" /\ result = "ok" /\ cmd.mode \in {"install", "reinstall"})
        => ManifestPaths(PkgName) \subseteq copied

\* C4: after a sequence of successful commands, every file on disk that the
\* tool wrote is listed in the manifest of the package name it was installed
\* under.
ManifestCompleteness ==
    (pc = "exit" /\ allOk)
        => \A path \in DOMAIN files :
              files[path] /= UserFile
                  => path \in ManifestPaths(get_package_name(files[path].data[1]))

\* C5: after a successful install followed by a successful uninstall of the
\* same package and prefix, the files and directories under the destination
\* roots are those from before the install, and the manifest is gone.
RoundTrip ==
    rt.stage = "done"
        => /\ \A path \in DOMAIN files \cup DOMAIN rt.files :
                 UnderDestRoots(rt.prefix, path)
                     => /\ path \in DOMAIN files
                        /\ path \in DOMAIN rt.files
                        /\ files[path] = rt.files[path]
           /\ \A d \in dirs \cup rt.dirs :
                 UnderDestRoots(rt.prefix, d) => (d \in dirs <=> d \in rt.dirs)
           /\ LogFileName(rt.name) \notin DOMAIN manifests

\* a step of install_files
InstallStep ==
    /\ \A path \in DOMAIN files : path \in DOMAIN files' /\ files'[path] = files[path]
    /\ ((/\ pc = "copy"
         /\ Exists(Components(DestLine(cur, cmd.prefix)))
         /\ pc' /= "idle")
           => (pc' = "walk" /\ result' = "running" /\ UNCHANGED fsvars))

\* C6: no step of an install changes or removes a file that exists, and the
\* step that finds the destination existing goes on with the walk (unless the
\* process is killed).
IdempotentSkip == [][(pc \in InstallPcs) => InstallStep]_vars

\* C6 witness: a second install of the same archive has succeeded after
\* skipping a file the first one wrote.
IdempotentSkipWitness ==
    /\ pc = "exit"
    /\ result = "ok"
    /\ cmd.mode = "install"
    /\ \E path \in skipped :
          path \in DOMAIN files /\ files[path] /= UserFile /\ files[path].data[1] = cmd.package

\* C7: after a successful install and uninstall, a directory that install
\* created and copied a file into, and that is empty now, has been removed.
PruningReclaims ==
    rt.stage = "done"
        => \A path \in rt.copied :
              (Parent(path) \notin rt.dirs /\ Parent(path) \in dirs)
                  => ~IsEmptyDir(Parent(path))

\* C8: a directory is removed only by a step that finds it empty.
PruningSafety == [][\A d \in dirs \ dirs' : IsEmptyDir(d)]_vars

\* C8 witness: the upward walk has removed the binaries directory and stands
\* at a directory that is not empty.
PruningSafetyWitness ==
    /\ pc = "prune"
    /\ walk \in dirs
    /\ ~IsEmptyDir(walk)
    /\ Components(dest_bin_dir(cmd.prefix)) \notin dirs
    /\ IsUnder(walk, Components(dest_bin_dir(cmd.prefix)))

\* the step of uninstall_files that finds no manifest
RefusedStep ==
    /\ UNCHANGED fsvars
    /\ pc' \in {"exit", "idle"}
    /\ (pc' = "exit"
           => result' \in {"ManifestNotFound", "PermissionPolicy", "UserCancelled"})
    /\ (result' = "PermissionPolicy" => (needs_root(cmd.prefix) /\ ~cmd.root))
    /\ (result' \in {"ManifestNotFound", "UserCancelled"}
           => ~(needs_root(cmd.prefix) /\ ~cmd.root))

\* C9: uninstall_files called for a name without manifest ends at once, with
\* the manifest-not-found error unless the gate, the prompt or a kill ended
\* it, and changes nothing on disk.
NoManifestRefused ==
    [][(pc = "uninstall_files" /\ LogFileName(PkgName) \notin DOMAIN manifests)
           => RefusedStep]_vars

\* C9 witness: the uninstall has been refused for want of a manifest while a
\* file sits under the binaries directory of the prefix.
NoManifestRefusedWitness ==
    /\ pc = "exit"
    /\ result = "ManifestNotFound"
    /\ \E path \in DOMAIN files :
          IsUnder(Components(dest_bin_dir(cmd.prefix)), path)

\* a step of the loop over the manifest's lines
LoopStep ==
    /\ ((/\ idx <= Len(lines)
         /\ ~Exists(Components(lines[idx]))
         /\ pc' /= "idle")
           => (pc' = "un_loop" /\ idx' = idx + 1 /\ UNCHANGED fsvars))
    /\ (pc' = "prune"
           => /\ \A i \in 1..Len(lines) : Components(lines[i]) \notin DOMAIN files'
              /\ LogFileName(PkgName) \notin DOMAIN manifests')

\* C10: a listed path that does not exist is passed over without error or
\* change (unless the process is killed), and when the loop is over no listed
\* path is a file and the manifest is removed.
DriftTolerance == [][(pc = "un_loop") => LoopStep]_vars

\* C10 witness: an uninstall has succeeded after passing over a listed path
\* that was not on disk.
DriftToleranceWitness ==
    /\ pc = "exit"
    /\ result = "ok"
    /\ cmd.mode = "uninstall"
    /\ missing /= {}

\* a step of a command that has not yet passed its confirmation
AbortStep ==
    /\ (pc' = "exit" /\ result' \in {"UserCancelled", "MetadataUnreadable"})
           => UNCHANGED fsvars
    /\ (/\ cmd'.mode \in {"install", "uninstall"}
        /\ pc' \in {"extract", "install_files", "uninstall_files"})
           => UNCHANGED fsvars

\* C11: the step that ends a command in cancellation or in unreadable
\* metadata, and every step of an install or uninstall up to its confirmation,
\* leaves files, directories and manifests unchanged.
AbortBeforeMutation == [][AbortStep]_vars

\* C11 witness: an uninstall has been cancelled while the package's manifest
\* lists a file that is on disk.
AbortBeforeMutationWitness ==
    /\ pc = "exit"
    /\ result = "UserCancelled"
    /\ cmd.mode = "uninstall"
    /\ \E path \in ManifestPaths(PkgName) : path \in DOMAIN files

\* what the oracle's answer means
IsExecutable(mime) == mime = "application/x-executable"
IsSharedLibrary(mime) == mime = "application/x-sharedlib"

\* the files of the binaries and icon trees that are to be deployed
Deployed(e) ==
    IF e.cat = "bin" THEN IsExecutable(e.mime) \/ IsSharedLibrary(e.mime)
    ELSE IF e.cat = "icon"
    THEN /\ Extension(e.rel) \in {<<"p","n","g">>, <<"s","v","g">>}
         /\ e.mime \in {"image/png", "image/svg+xml"}
    ELSE TRUE

\* a step of the walk over a source tree
ClassifyStep ==
    /\ (pc' = "copy")
           => /\ cur' \in todo
              /\ Deployed(cur')
              /\ manifests' = [manifests EXCEPT ![LogFileName(PkgName)] =
                                   Append(@, DestLine(cur', cmd.prefix))]
    /\ (pc' = "walk" /\ todo' /= todo)
           => \E e \in todo :
                 /\ todo' = todo \ {e}
                 /\ (e.cat \in {"bin", "icon"} => ~Deployed(e))
                 /\ result' = "running"
                 /\ UNCHANGED fsvars

\* C12: the walk records and goes on to copy a file of the binaries or icon
\* tree exactly when the oracle's answer (and, for an icon, the extension) says
\* so; a file it rejects leaves manifest and disk unchanged and the install
\* running.
ClassificationDecides == [][(pc = "walk") => ClassifyStep]_vars

\* C12 witness: the install of the archive with the doubtful files has
\* succeeded, and exactly the executable and the .svg image were recorded and
\* copied.
ClassificationWitness ==
    /\ pc = "exit"
    /\ result = "ok"
    /\ cmd.package = CLS1
    /\ Len(manifests[LogFileName(PkgName)]) = 2
    /\ copied = {Components(DestLine(e, cmd.prefix)) :
                    e \in {Entry("bin", REL_E_TXT, "application/x-executable", "0644"),
                           Entry("icon", REL_I_SVG, "image/svg+xml", "0644")}}

\* the name the archive path stands for: what precedes the first hyphen of its
\* file name, "unknown" when there is no file name or nothing before the hyphen
DerivedName(pkg_path) ==
    LET f == FileName(pkg_path)
        i == FirstIndex(f, HYPHEN)
        before == IF i = 0 THEN f ELSE SubSeq(f, 1, i - 1)
    IN  IF f = <<>> \/ before = <<>> THEN UNKNOWN ELSE before

\* C13: when a command has ended, the package name it worked with, and the
\* key of the manifest it created, is the part of the archive path's file name
\* before the first hyphen, and "unknown" when that cannot be determined.
NameDerivation ==
    (pc = "exit")
        => /\ get_package_name(cmd.package) = DerivedName(cmd.package)
           /\ \A k \in DOMAIN manifests : k = LogFileName(DerivedName(cmd.package))

\* path lies under /usr (or is /usr), or is exactly /opt
ElevationRequired(prefix) ==
    IsUnder(Components(USR), Components(prefix)) \/ prefix = OPT

\* C14: a command is rejected by the privilege gate only when its prefix is
\* /usr, a path under /usr, or exactly /opt.
GateScope ==
    (pc = "exit" /\ result = "PermissionPolicy") => ElevationRequired(cmd.prefix)

UninstallPcs == {"uninstall_files", "un_loop", "prune"}

\* a step of a reinstall
ReinstallStep ==
    /\ (pc = "idle") => (pc' = "uninstall_files")
    /\ (pc' \in InstallPcs \cup {"extract"})
           => \/ pc \in InstallPcs \cup {"extract"}
              \/ /\ pc = "prune"
                 /\ pc' = "extract"
                 /\ cat = Len(Categories)
                 /\ ~(Prunes(walk) /\ HasParent(walk))
                 /\ LogFileName(PkgName) \notin DOMAIN manifests
                 /\ \A i \in 1..Len(lines) : Components(lines[i]) \notin DOMAIN files
    /\ (pc \in UninstallPcs /\ pc' = "exit")
           => result' \in {"PermissionPolicy", "UserCancelled", "ManifestNotFound",
                           "IOError"}

\* C15: a reinstall begins with uninstall_files; extraction and install_files
\* start only from the end of the last pruning walk, with the listed files and
\* the manifest removed; an uninstall phase that fails ends the command with
\* its error.
ReinstallOrder == [][(cmd'.mode = "reinstall") => ReinstallStep]_vars

\* C15 witness: a reinstall has removed the files of the earlier install and
\* then installed them again.
ReinstallOrderWitness ==
    /\ pc = "exit"
    /\ result = "ok"
    /\ cmd.mode = "reinstall"
    /\ copied /= {}
    /\ skipped = {}

\* a step of the loop over the manifest's lines
DeleteFailureStep ==
    /\ (/\ idx <= Len(lines)
        /\ Exists(Components(lines[idx]))
        /\ files' = files
        /\ pc' /= "idle")
           => (pc' = "exit" /\ result' = "IOError")
    /\ (pc' = "exit")
           => /\ UNCHANGED fsvars
              /\ LogFileName(PkgName) \in DOMAIN manifests
              /\ manifests[LogFileName(PkgName)] = lines

BinDest(e, prefix) == Components(dest_bin_dir(prefix)) \o Components(e.rel)

\* C17: an install that has ended, and was not stopped by its archive, the
\* privilege gate, the metadata or the question, has succeeded, and every
\* file of the binaries tree classified executable or shared library is at
\* <prefix>/bin/<relative subpath>, with mode 0755 where this install copied it.
RecursiveBinaries ==
    (/\ pc = "exit"
     /\ cmd.mode = "install"
     /\ cmd.package \in ArchiveFiles
     /\ result \notin {"PermissionPolicy", "MetadataUnreadable", "UserCancelled"})
        => /\ result = "ok"
           /\ \A e \in Tree(cmd.package).entries :
                 (e.cat = "bin" /\ Deployed(e))
                     => /\ BinDest(e, cmd.prefix) \in DOMAIN files
                        /\ (BinDest(e, cmd.prefix) \in copied
                               => files[BinDest(e, cmd.prefix)].mode = "0755")

\* a step of the pruning: either the directory looked at is an empty
\* directory with a parent, it is removed and the walk moves to the parent, or
\* it is missing, non-empty or the filesystem root and the walk of this
\* destination root is over
PruneVariant ==
    /\ cat \in 1..Len(Categories)
    /\ (pc' = "prune" /\ cat' = cat)
           => /\ walk \in dirs /\ IsEmptyDir(walk) /\ HasParent(walk)
              /\ walk \notin dirs'
              /\ walk' = Parent(walk)
              /\ Len(walk') < Len(walk)
    /\ (pc' /= "idle" /\ ~(pc' = "prune" /\ cat' = cat))
           => /\ walk \notin dirs \/ ~IsEmptyDir(walk) \/ ~HasParent(walk)
              /\ (pc' = "prune"
                     => /\ cat' = cat + 1
                        /\ walk' = Components(DestDir(cat', cmd.prefix)))
              /\ (pc' /= "prune" => cat = Len(Categories))

FrameStep ==
    /\ \A path \in DOMAIN files' : path \in DOMAIN files /\ files'[path] = files[path]
    /\ \A path \in DOMAIN files \ DOMAIN files' :
          /\ pc = "un_loop"
          /\ idx \in 1..Len(lines)
          /\ path = Components(lines[idx])
          /\ lines = manifests[LogFileName(PkgName)]
    /\ \A k \in DOMAIN manifests' : k \in DOMAIN manifests /\ manifests'[k] = manifests[k]
    /\ \A k \in DOMAIN manifests \ DOMAIN manifests' : k = LogFileName(PkgName)

\* C19: no step of uninstall_files creates or changes a file or a manifest;
\* the only file a step deletes is the one named by the current line of the
\* package's manifest, whatever the prefix, and the only manifest a step
\* deletes is the package's own.
UninstallFrame == [][(pc \in UninstallPcs) => FrameStep]_vars

\* C19 witness: the uninstall has deleted the first file its manifest lists,
\* a file that lies under none of the destination roots of the prefix given.
UninstallFrameWitness ==
    /\ pc = "un_loop"
    /\ idx > 1
    /\ ~Exists(Components(lines[1]))
    /\ Components(lines[1]) \notin missing
    /\ ~UnderDestRoots(cmd.prefix, Components(lines[1]))

====
